---- MODULE Spec2Model ----
(***************************************************************************)
(* Model of the Discord event organizer bot (src/main.py): the SQLite      *)
(* events table, the command handlers that mutate it, and reminder_loop,   *)
(* the periodic task that sends reminders.                                 *)
(*                                                                         *)
(* Text is modelled as a sequence of one-character strings, so that the    *)
(* comma-joined participants column is split and joined the way the code   *)
(* does it. Times are minutes on one UTC axis.                             *)
(*                                                                         *)
(* asyncio runs one coroutine at a time and switches only at an await, so  *)
(* each command handler is one atomic step (its only await is the final    *)
(* reply), and reminder_loop is cut at its one await, chan.send.           *)
(***************************************************************************)
EXTENDS Integers, Sequences, FiniteSets, TLC

\* ------------------------------------------------------------------ bounds
MaxEvents == 2      \* rows ever inserted (caps the AUTOINCREMENT counter)
MaxParts  == 3      \* join_event is not taken once the list read back is this long
MaxRosters == 1     \* rows ever inserted where every display name is tried

\* --------------------------------------------------------- program constants
DefaultRemind == 30     \* remind_minutes written by create_event
FallbackRemind == 30    \* row["remind_minutes"] or 30 in reminder_loop
MaxRemind     == 1440   \* 24 * 60 in set_reminder
TaipeiOffset  == 480    \* TAIPEI = UTC+8, in minutes

\* ------------------------------------------------------------------- inputs
NULL == <<"NULL">>      \* SQL NULL / Python None in a text column

Names == { <<"a">>, <<"a", ",", "b">> }   \* display names; one holds the separator

OneName == { <<"a">> }

Channels == {1}      \* ids of text channels

VoiceChannel == 3       \* a channel that is no TextChannel, Thread or DMChannel

EventIds == 1..MaxEvents                          \* event_id arguments

Payloads ==
  { <<"T", "|", "1", "|", "L">>,                  \* title | time | location
    <<"T", " ", "|", " ", "1", "|", "L", "|", "N">>,  \* with a note, padded
    <<"|", " ", "1", "|", "L">>,                  \* title empty after trimming
    <<"T", "|", "x", "|", "L">>,                  \* malformed time
    <<"T", "|", "1">> }                           \* fewer than three parts

PlainPayloads ==
  { <<"T", "|", "1", "|", "L">>,
    <<"T", "|", "x", "|", "L">>,
    <<"T", "|", "1">> }

OnePayload == { <<"T", "|", "1", "|", "L">> }

Notes == { <<"N">>, <<"M">> }

FirstId == 1                                      \* the first id AUTOINCREMENT assigns

Members == { <<"a">>, <<"b">> }                   \* display names that join an event

Callers == Members \cup { <<"c">> }               \* display names that call delete_event

Confirms == {"confirm", "Confirm", "none"}        \* the confirm argument; "none" is the default None

Minutes == {0, 15, 0 - 1, MaxRemind + 1}          \* arguments of set_reminder

Clock == {0, 30, 60}                              \* wall-clock instants (UTC minutes)

\* ----------------------------------------------------------------- state
VARIABLES
  store,      \* the events table: id -> row
  seq,        \* sqlite_sequence: the largest id ever assigned
  gone,       \* channels bot.get_channel no longer resolves
  now,        \* wall clock
  running,    \* reminder_loop.is_running()
  pc,         \* reminder_loop: "idle" between cycles, "sending" inside await chan.send
  now_utc,    \* reminder_loop's local now_utc
  rows,       \* reminder_loop's local rows (the fetched snapshot)
  idx,        \* position of the for loop in rows
  resp,       \* the reply of the last command
  issued,     \* history: the ids create_event returned, in order
  calls,      \* history: id -> sink hand-offs since the event was last armed (2 = more than one)
  outcome,    \* history: id -> result of the last hand-off since the event was last armed
  joined      \* history: <<id, name>> that joined and have not left since

vars == <<store, seq, gone, now, running, pc, now_utc, rows, idx, resp,
          issued, calls, outcome, joined>>

schedVars == <<pc, now_utc, rows, idx>>

\* ------------------------------------------------------------ text utilities
IsSpace(ch) == ch = " "

RECURSIVE LStrip(_)
LStrip(s) == IF s # <<>> /\ IsSpace(Head(s)) THEN LStrip(Tail(s)) ELSE s

RECURSIVE RStrip(_)
RStrip(s) == IF s # <<>> /\ IsSpace(s[Len(s)]) THEN RStrip(SubSeq(s, 1, Len(s) - 1)) ELSE s

\* str.strip()
Strip(s) == RStrip(LStrip(s))

\* str.split(sep) for a one-character sep: always at least one piece
RECURSIVE SplitAcc(_, _, _)
SplitAcc(s, sep, cur) ==
  IF s = <<>> THEN <<cur>>
  ELSE IF Head(s) = sep THEN <<cur>> \o SplitAcc(Tail(s), sep, <<>>)
  ELSE SplitAcc(Tail(s), sep, Append(cur, Head(s)))

Split(s, sep) == SplitAcc(s, sep, <<>>)

RECURSIVE StripNonEmpty(_)
StripNonEmpty(ps) ==
  IF ps = <<>> THEN <<>>
  ELSE IF Strip(Head(ps)) # <<>> THEN <<Strip(Head(ps))>> \o StripNonEmpty(Tail(ps))
  ELSE StripNonEmpty(Tail(ps))

\* names_to_list: split on ",", strip every piece, drop the empty ones
names_to_list(s) ==
  IF s = NULL \/ s = <<>> THEN <<>>
  ELSE StripNonEmpty(Split(s, ","))

\* list_to_names: ", ".join(lst)
RECURSIVE list_to_names(_)
list_to_names(lst) ==
  IF lst = <<>> THEN <<>>
  ELSE IF Len(lst) = 1 THEN lst[1]
  ELSE lst[1] \o <<",", " ">> \o list_to_names(Tail(lst))

InList(x, lst) == \E i \in 1..Len(lst) : lst[i] = x

\* the list with only the first entry equal to name taken out (list.remove)
RECURSIVE WithoutFirst(_, _)
WithoutFirst(lst, name) ==
  IF lst = <<>> THEN <<>>
  ELSE IF Head(lst) = name THEN Tail(lst)
  ELSE <<Head(lst)>> \o WithoutFirst(Tail(lst), name)

RECURSIVE Without(_, _)
\* [p for p in parts if p != name]
Without(lst, name) ==
  IF lst = <<>> THEN <<>>
  ELSE IF Head(lst) = name THEN Without(Tail(lst), name)
  ELSE <<Head(lst)>> \o Without(Tail(lst), name)

\* parse_local_time: strptime of the stripped text; the table stands for the
\* texts that match "%Y-%m-%d %H:%M" and gives their local minute
TimeTable == [t \in { <<"1">> } |-> 540]

TimeOk(s) == Strip(s) \in DOMAIN TimeTable

parse_local_time(s) == TimeTable[Strip(s)]

\* dt_local.astimezone(timezone.utc)
ToUtc(local) == local - TaipeiOffset

\* is_messageable(ch), for the channel object the id resolves to
is_messageable(ch) == ch \in Channels \ gone

\* ------------------------------------------------------------------ replies
Reply(op, res, id, who) == [op |-> op, res |-> res]

NoReply == Reply("none", "none", 0, <<>>)

\* ---------------------------------------------------------------- the store
Row(id, ch, title, proposer, manager, participants, note, location, t, remind) ==
  [id |-> id, channel_id |-> ch, title |-> title, proposer |-> proposer,
   manager |-> manager, participants |-> participants, note |-> note,
   location |-> location, event_time_utc |-> t, remind_minutes |-> remind,
   reminded |-> 0]

\* the id a plain rowid table would give: one above the largest id present
NewIdRowid ==
  IF DOMAIN store = {} THEN 1
  ELSE 1 + CHOOSE m \in DOMAIN store : \A i \in DOMAIN store : i <= m

\* INSERT INTO events: AUTOINCREMENT takes the id above sqlite_sequence
NewId == seq + 1

Put(st, id, row) == [i \in DOMAIN st \cup {id} |-> IF i = id THEN row ELSE st[i]]

Drop(f, id) == [i \in DOMAIN f \ {id} |-> f[i]]

\* the participants of a row as every handler reads them
Parts(row) == names_to_list(row.participants)

HistoryUnchanged == UNCHANGED <<issued, calls, outcome, joined>>

\* ----------------------------------------------------------------- commands
\* create_event(ctx, payload) sent in channel ch by author
create_event(ch, payload, author) ==
  /\ UNCHANGED <<gone, now, running, schedVars>>
  /\ LET parts == [i \in 1..Len(Split(payload, "|")) |-> Strip(Split(payload, "|")[i])]
     IN
     IF ~is_messageable(ch) THEN
       /\ resp' = Reply("create", "not_messageable", 0, author)
       /\ UNCHANGED <<store, seq>> /\ HistoryUnchanged
     ELSE IF payload = <<>> \/ Len(parts) < 3 THEN
       /\ resp' = Reply("create", "usage", 0, author)
       /\ UNCHANGED <<store, seq>> /\ HistoryUnchanged
     ELSE IF ~TimeOk(parts[2]) THEN
       /\ resp' = Reply("create", "bad_time", 0, author)
       /\ UNCHANGED <<store, seq>> /\ HistoryUnchanged
     ELSE
       LET title    == parts[1]
           location == parts[3]
           note     == IF Len(parts) >= 4 THEN parts[4] ELSE <<>>
           dt_utc   == ToUtc(parse_local_time(parts[2]))
           proposer == author
           manager  == proposer
           participants == <<proposer>>
           id       == NewId
       IN
       /\ store' = Put(store, id,
                       Row(id, ch, title, proposer, manager, list_to_names(participants),
                           note, location, dt_utc, DefaultRemind))
       /\ seq' = id
       /\ resp' = Reply("create", "ok", id, author)
       /\ issued' = Append(issued, id)
       /\ calls' = Put(calls, id, 0)
       /\ outcome' = Put(outcome, id, "none")
       /\ UNCHANGED joined

\* join_event(ctx, event_id) by author
join_event(event_id, author) ==
  /\ UNCHANGED <<seq, gone, now, running, schedVars, issued, calls, outcome>>
  /\ IF event_id \notin DOMAIN store THEN
       /\ resp' = Reply("join", "not_found", event_id, author)
       /\ UNCHANGED <<store, joined>>
     ELSE
       LET parts == Parts(store[event_id]) IN
       IF InList(author, parts) THEN
         /\ resp' = Reply("join", "already", event_id, author)
         /\ UNCHANGED <<store, joined>>
       ELSE
         /\ Len(parts) < MaxParts
         /\ store' = [store EXCEPT ![event_id].participants =
                                      list_to_names(Append(parts, author))]
         /\ resp' = Reply("join", "ok", event_id, author)
         /\ joined' = joined \cup {<<event_id, author>>}

\* leave_event(ctx, event_id) by author
leave_event(event_id, author) ==
  /\ UNCHANGED <<seq, gone, now, running, schedVars, issued, calls, outcome>>
  /\ IF event_id \notin DOMAIN store THEN
       /\ resp' = Reply("leave", "not_found", event_id, author)
       /\ UNCHANGED <<store, joined>>
     ELSE
       LET row   == store[event_id]
           parts == Parts(row)
           name  == author
       IN
       IF ~InList(name, parts) THEN
         /\ resp' = Reply("leave", "not_member", event_id, author)
         /\ UNCHANGED <<store, joined>>
       ELSE
         LET new_manager == IF name = row.manager THEN NULL ELSE row.manager IN
         /\ store' = [store EXCEPT ![event_id].participants = list_to_names(Without(parts, name)),
                                   ![event_id].manager = new_manager]
         /\ resp' = Reply("leave", IF new_manager = NULL THEN "ok_cleared" ELSE "ok",
                          event_id, author)
         /\ joined' = joined \ {<<event_id, name>>}

\* set_manager(ctx, event_id, who)
set_manager(event_id, who) ==
  /\ UNCHANGED <<seq, gone, now, running, schedVars>> /\ HistoryUnchanged
  /\ IF event_id \notin DOMAIN store THEN
       /\ resp' = Reply("set_manager", "not_found", event_id, who)
       /\ UNCHANGED store
     ELSE IF ~InList(who, Parts(store[event_id])) THEN
       /\ resp' = Reply("set_manager", "not_participant", event_id, who)
       /\ UNCHANGED store
     ELSE
       /\ store' = [store EXCEPT ![event_id].manager = who]
       /\ resp' = Reply("set_manager", "ok", event_id, who)

\* random_manager(ctx, event_id): random.choice is any position of the list
random_manager(event_id) ==
  /\ UNCHANGED <<seq, gone, now, running, schedVars>> /\ HistoryUnchanged
  /\ IF event_id \notin DOMAIN store THEN
       /\ resp' = Reply("random_manager", "not_found", event_id, <<>>)
       /\ UNCHANGED store
     ELSE
       LET parts == Parts(store[event_id]) IN
       IF parts = <<>> THEN
         /\ resp' = Reply("random_manager", "no_participants", event_id, <<>>)
         /\ UNCHANGED store
       ELSE
         \E i \in 1..Len(parts) :
           /\ store' = [store EXCEPT ![event_id].manager = parts[i]]
           /\ resp' = Reply("random_manager", "ok", event_id, parts[i])

\* add_note whose UPDATE has no WHERE id = ?
add_note_every_row(event_id, note) ==
  /\ UNCHANGED <<seq, gone, now, running, schedVars>> /\ HistoryUnchanged
  /\ IF event_id \notin DOMAIN store THEN
       /\ resp' = Reply("add_note", "not_found", event_id, <<>>)
       /\ UNCHANGED store
     ELSE
       /\ store' = [i \in DOMAIN store |-> [store[i] EXCEPT !.note = note]]
       /\ resp' = Reply("add_note", "ok", event_id, <<>>)

\* add_note(ctx, event_id, note)
add_note(event_id, note) ==
  /\ UNCHANGED <<seq, gone, now, running, schedVars>> /\ HistoryUnchanged
  /\ IF event_id \notin DOMAIN store THEN
       /\ resp' = Reply("add_note", "not_found", event_id, <<>>)
       /\ UNCHANGED store
     ELSE
       /\ store' = [store EXCEPT ![event_id].note = note]
       /\ resp' = Reply("add_note", "ok", event_id, <<>>)

\* set_reminder that writes remind_minutes and leaves reminded as it is
set_reminder_keep_flag(event_id, minutes) ==
  /\ UNCHANGED <<seq, gone, now, running, schedVars, issued, joined>>
  /\ IF minutes < 0 \/ minutes > MaxRemind THEN
       /\ resp' = Reply("set_reminder", "out_of_range", event_id, <<>>)
       /\ UNCHANGED <<store, calls, outcome>>
     ELSE IF event_id \notin DOMAIN store THEN
       /\ resp' = Reply("set_reminder", "not_found", event_id, <<>>)
       /\ UNCHANGED <<store, calls, outcome>>
     ELSE
       /\ store' = [store EXCEPT ![event_id].remind_minutes = minutes]
       /\ resp' = Reply("set_reminder", "ok", event_id, <<>>)
       /\ calls' = [calls EXCEPT ![event_id] = 0]
       /\ outcome' = [outcome EXCEPT ![event_id] = "none"]

\* set_reminder with the range looked at only after the UPDATE
set_reminder_late_check(event_id, minutes) ==
  /\ UNCHANGED <<seq, gone, now, running, schedVars, issued, joined>>
  /\ IF event_id \notin DOMAIN store THEN
       /\ resp' = Reply("set_reminder", "not_found", event_id, <<>>)
       /\ UNCHANGED <<store, calls, outcome>>
     ELSE
       /\ store' = [store EXCEPT ![event_id].remind_minutes = minutes,
                                 ![event_id].reminded = 0]
       /\ resp' = Reply("set_reminder",
                        IF minutes < 0 \/ minutes > MaxRemind THEN "out_of_range" ELSE "ok",
                        event_id, <<>>)
       /\ calls' = [calls EXCEPT ![event_id] = 0]
       /\ outcome' = [outcome EXCEPT ![event_id] = "none"]

\* set_reminder(ctx, event_id, minutes)
set_reminder(event_id, minutes) ==
  /\ UNCHANGED <<seq, gone, now, running, schedVars, issued, joined>>
  /\ IF minutes < 0 \/ minutes > MaxRemind THEN
       /\ resp' = Reply("set_reminder", "out_of_range", event_id, <<>>)
       /\ UNCHANGED <<store, calls, outcome>>
     ELSE IF event_id \notin DOMAIN store THEN
       /\ resp' = Reply("set_reminder", "not_found", event_id, <<>>)
       /\ UNCHANGED <<store, calls, outcome>>
     ELSE
       /\ store' = [store EXCEPT ![event_id].remind_minutes = minutes,
                                 ![event_id].reminded = 0]
       /\ resp' = Reply("set_reminder", "ok", event_id, <<>>)
       /\ calls' = [calls EXCEPT ![event_id] = 0]
       /\ outcome' = [outcome EXCEPT ![event_id] = "none"]

\* show_event(ctx, event_id): reads one row and replies, writes nothing
show_event(event_id) ==
  /\ UNCHANGED <<store, seq, gone, now, running, schedVars>> /\ HistoryUnchanged
  /\ IF event_id \notin DOMAIN store THEN
       resp' = Reply("show", "not_found", event_id, <<>>)
     ELSE
       resp' = Reply("show", "ok", event_id, <<>>)

\* delete_event without the test of confirm
delete_event_unconfirmed(event_id, author, perms, confirm) ==
  /\ UNCHANGED <<seq, gone, now, running, schedVars, issued>>
  /\ IF event_id \notin DOMAIN store THEN
       /\ resp' = Reply("delete", "not_found", event_id, author)
       /\ UNCHANGED <<store, calls, outcome, joined>>
     ELSE
       LET row      == store[event_id]
           is_owner == author = row.proposer \/ author = row.manager
       IN
       IF ~(is_owner \/ perms) THEN
         /\ resp' = Reply("delete", "forbidden", event_id, author)
         /\ UNCHANGED <<store, calls, outcome, joined>>
       ELSE
         /\ store' = Drop(store, event_id)
         /\ resp' = Reply("delete", "ok", event_id, author)
         /\ calls' = Drop(calls, event_id)
         /\ outcome' = Drop(outcome, event_id)
         /\ joined' = {p \in joined : p[1] # event_id}

\* delete_event(ctx, event_id, confirm) by author; perms is manage_guild or administrator
delete_event(event_id, author, perms, confirm) ==
  /\ UNCHANGED <<seq, gone, now, running, schedVars, issued>>
  /\ IF event_id \notin DOMAIN store THEN
       /\ resp' = Reply("delete", "not_found", event_id, author)
       /\ UNCHANGED <<store, calls, outcome, joined>>
     ELSE
       LET row      == store[event_id]
           is_owner == author = row.proposer \/ author = row.manager
       IN
       IF ~(is_owner \/ perms) THEN
         /\ resp' = Reply("delete", "forbidden", event_id, author)
         /\ UNCHANGED <<store, calls, outcome, joined>>
       ELSE IF confirm # "confirm" THEN
         /\ resp' = Reply("delete", "need_confirm", event_id, author)
         /\ UNCHANGED <<store, calls, outcome, joined>>
       ELSE
         /\ store' = Drop(store, event_id)
         /\ resp' = Reply("delete", "ok", event_id, author)
         /\ calls' = Drop(calls, event_id)
         /\ outcome' = Drop(outcome, event_id)
         /\ joined' = {p \in joined : p[1] # event_id}

\* ------------------------------------------------------------ reminder_loop
\* SELECT * FROM events WHERE event_time_utc IS NOT NULL AND reminded = 0, in
\* rowid order. create_event is the only writer of event_time_utc and always
\* sets it, so every row passes the first condition.
RECURSIVE Fetch(_, _)
Fetch(st, from) ==
  IF from > seq THEN <<>>
  ELSE IF from \in DOMAIN st /\ st[from].reminded = 0
       THEN <<st[from]>> \o Fetch(st, from + 1)
       ELSE Fetch(st, from + 1)

\* remind_at = event_dt_utc - timedelta(minutes=(row["remind_minutes"] or 30))
remind_at(row) ==
  row.event_time_utc - (IF row.remind_minutes = 0 THEN FallbackRemind ELSE row.remind_minutes)

\* UPDATE events SET reminded = 1 - reminded WHERE id = ?
MarkRemindedFlip(st, id) ==
  IF id \in DOMAIN st THEN [st EXCEPT ![id].reminded = 1 - @] ELSE st

\* UPDATE events SET reminded = 1 WHERE id = ?  (no row: nothing happens)
MarkReminded(st, id) == IF id \in DOMAIN st THEN [st EXCEPT ![id].reminded = 1] ELSE st

Count(c, id) == IF id \in DOMAIN c THEN [c EXCEPT ![id] = IF @ = 0 THEN 1 ELSE 2] ELSE c

Note(o, id, what) == IF id \in DOMAIN o THEN [o EXCEPT ![id] = what] ELSE o

\* the result of a send that returns: it belongs to the present arming only if
\* the event was not re-armed (or deleted) while the send was in flight
Settle(o, id, what) == IF id \in DOMAIN o /\ o[id] = "sending" THEN [o EXCEPT ![id] = what] ELSE o

\* The for loop from position i of snapshot rs, scanned at t, up to its next
\* await (chan.send of a due row whose channel is messageable) or its end.
RECURSIVE RunLoop(_, _, _, _, _, _)
RunLoop(rs, t, i, st, cs, os) ==
  IF i > Len(rs) THEN [pc |-> "idle", idx |-> 0, rows |-> <<>>, now_utc |-> 0,
                        store |-> st, calls |-> cs, outcome |-> os]
  ELSE IF ~(t >= remind_at(rs[i])) THEN RunLoop(rs, t, i + 1, st, cs, os)
  ELSE IF is_messageable(rs[i].channel_id)
       THEN [pc |-> "sending", idx |-> i, rows |-> rs, now_utc |-> t, store |-> st,
             calls |-> Count(cs, rs[i].id), outcome |-> Note(os, rs[i].id, "sending")]
       ELSE RunLoop(rs, t, i + 1, MarkReminded(st, rs[i].id),
                    Count(cs, rs[i].id), Note(os, rs[i].id, "unreachable"))

Resume(r) ==
  /\ pc' = r.pc
  /\ idx' = r.idx
  /\ rows' = r.rows
  /\ now_utc' = r.now_utc
  /\ store' = r.store
  /\ calls' = r.calls
  /\ outcome' = r.outcome

\* on_ready: start the loop unless it is running
on_ready ==
  /\ running' = TRUE
  /\ UNCHANGED <<store, seq, gone, now, schedVars, resp>> /\ HistoryUnchanged

\* one iteration of reminder_loop begins: scan, then run to the first await
LoopStart ==
  /\ running /\ pc = "idle"
  /\ Resume(RunLoop(Fetch(store, 1), now, 1, store, calls, outcome))
  /\ UNCHANGED <<seq, gone, now, running, resp, issued, joined>>

\* await chan.send(...) returns: mark the row, carry on with the loop
SendOk ==
  /\ pc = "sending"
  /\ LET id == rows[idx].id IN
     Resume(RunLoop(rows, now_utc, idx + 1, MarkReminded(store, id),
                    calls, Settle(outcome, id, "ok")))
  /\ UNCHANGED <<seq, gone, now, running, resp, issued, joined>>

\* await chan.send(...) raises: the exception leaves the loop body, so lines
\* 151-152 are skipped. tasks.loop either retries the body after a backoff
\* (connection errors) or ends the task (any other exception).
SendError ==
  /\ pc = "sending"
  /\ pc' = "idle" /\ idx' = 0 /\ rows' = <<>> /\ now_utc' = 0
  /\ outcome' = Settle(outcome, rows[idx].id, "error")
  /\ running' \in BOOLEAN
  /\ UNCHANGED <<store, seq, gone, now, resp, issued, calls, joined>>

\* ------------------------------------------------------------- environment
Tick ==
  /\ \E t \in Clock : t > now /\ (\A u \in Clock : u > now => t <= u) /\ now' = t
  /\ UNCHANGED <<store, seq, gone, running, schedVars, resp>> /\ HistoryUnchanged

\* a text channel is deleted: bot.get_channel(id) gives None from now on
ChannelGone(ch) ==
  /\ ch \notin gone
  /\ gone' = gone \cup {ch}
  /\ UNCHANGED <<store, seq, now, running, schedVars, resp>> /\ HistoryUnchanged

\* ------------------------------------------------------------ specification
Init ==
  /\ store = <<>>
  /\ seq = 0
  /\ gone = {}
  /\ now = 0
  /\ running = FALSE
  /\ pc = "idle"
  /\ now_utc = 0
  /\ rows = <<>>
  /\ idx = 0
  /\ resp = NoReply
  /\ issued = <<>>
  /\ calls = <<>>
  /\ outcome = <<>>
  /\ joined = {}

\* the command handlers, with arguments drawn from the given sets
CreatesUpTo(cap, names, payloads) ==
  /\ seq < cap
  /\ \E ch \in Channels \cup {VoiceChannel}, p \in payloads, a \in names :
       create_event(ch, p, a)

Creates(names, payloads) == CreatesUpTo(MaxEvents, names, payloads)

Joins(names) == \E id \in EventIds, a \in names : join_event(id, a)

Leaves(names) == \E id \in EventIds, a \in names : leave_event(id, a)

SetManagers(names) == \E id \in EventIds, w \in names : set_manager(id, w)

RandomManagers == \E id \in EventIds : random_manager(id)

AddNotes == \E id \in EventIds, n \in Notes : add_note(id, n)

SetReminders == \E id \in EventIds, m \in Minutes : set_reminder(id, m)

Deletes(names) ==
  \E id \in EventIds, a \in names, perms \in BOOLEAN, c \in {"confirm", "no"} :
    delete_event(id, a, perms, c)

\* the reminder task with the commands that create, re-arm and delete events,
\* the clock running and channels going away
Next ==
  \/ Creates(OneName, PlainPayloads)
  \/ SetReminders
  \/ Deletes(OneName)
  \/ on_ready
  \/ LoopStart
  \/ SendOk
  \/ SendError
  \/ Tick
  \/ \E ch \in Channels : ChannelGone(ch)

Spec == Init /\ [][Next]_vars

\* the roster commands under every display name (no reminder_loop: apart
\* from reminded it writes nothing)
NextStore ==
  \/ Creates(Names, OnePayload)
  \/ Joins(Names)
  \/ Leaves(Names)
  \/ SetManagers(Names)
  \/ RandomManagers
  \/ Deletes(Names)

SpecStore == Init /\ [][NextStore]_vars

\* create_event under every payload, with add_note and delete_event
NextCreate ==
  \/ Creates(OneName, Payloads)
  \/ AddNotes
  \/ Deletes(OneName)

SpecCreate == Init /\ [][NextCreate]_vars

\* the roster of events that are never deleted, under every display name
NextRoster ==
  \/ CreatesUpTo(MaxRosters, Names, OnePayload)
  \/ Joins(Names)
  \/ Leaves(Names)
  \/ SetManagers(Names)
  \/ RandomManagers

SpecRoster == Init /\ [][NextRoster]_vars

\* every command that can fail, and nothing else
NextCommands ==
  \/ Creates(OneName, PlainPayloads)
  \/ Joins(OneName)
  \/ Leaves(OneName)
  \/ SetManagers(OneName)
  \/ RandomManagers
  \/ AddNotes
  \/ SetReminders
  \/ Deletes(OneName)

SpecCommands == Init /\ [][NextCommands]_vars

\* the reminder task over events that are never deleted nor re-armed. The
\* timer starts a cycle whenever the loop is running and idle, an await on
\* chan.send ends (it returns or raises), and a send that is tried again and
\* again succeeds in the end. Nothing makes on_ready fire again: it follows a
\* gateway reconnect only.
NextLive ==
  \/ Creates(OneName, OnePayload)
  \/ on_ready
  \/ LoopStart
  \/ SendOk
  \/ SendError
  \/ Tick
  \/ \E ch \in Channels : ChannelGone(ch)

SpecLive ==
  /\ Init /\ [][NextLive]_vars
  /\ WF_vars(LoopStart)
  /\ WF_vars(SendOk \/ SendError)
  /\ SF_vars(SendOk)

\* the commands that change an event, issued for the first event while a later
\* event exists beside it, with the reminder task sending for both
NextFrame ==
  \/ CreatesUpTo(MaxRosters + 1, OneName, OnePayload)
  \/ (\E a \in OneName : join_event(FirstId, a))
  \/ (\E a \in OneName : leave_event(FirstId, a))
  \/ (\E w \in OneName : set_manager(FirstId, w))
  \/ random_manager(FirstId)
  \/ (\E n \in Notes : add_note(FirstId, n))
  \/ (\E m \in Minutes : set_reminder(FirstId, m))
  \/ on_ready
  \/ LoopStart
  \/ SendOk
  \/ SendError
  \/ Tick

SpecFrame == Init /\ [][NextFrame]_vars

\* the first event, whose proposer, manager and participants come to differ,
\* deleted by members and by a caller who is neither and looked up with
\* show_event, while a later event exists beside it
NextDelete ==
  \/ CreatesUpTo(MaxRosters + 1, OneName, OnePayload)
  \/ (\E a \in Members : join_event(FirstId, a))
  \/ (\E a \in Members : leave_event(FirstId, a))
  \/ (\E w \in Members : set_manager(FirstId, w))
  \/ (\E a \in Callers, perms \in BOOLEAN, cf \in Confirms :
        delete_event(FirstId, a, perms, cf))
  \/ (\E id \in EventIds : show_event(id))

SpecDelete == Init /\ [][NextDelete]_vars

\* ------------------------------------------------------------------ claims
Live == DOMAIN store

\* a step in which reminder_loop reaches await chan.send for a row
SendStarts == pc' = "sending" /\ (pc # "sending" \/ idx' # idx)

\* C1: within one arming of an event (no successful set_reminder since), the
\* scheduler hands the event to the Notification Sink at most once, whatever
\* the sends did. Fails: a send that raises leaves reminded = 0, and the next
\* cycle sends again.
C1_AtMostOnce == \A id \in Live : calls[id] <= 1

\* C2: once set_reminder succeeded, reminded stays 0 until a hand-off that
\* began after it. Fails: a send in flight across the set_reminder marks the
\* new arming notified.
C2_RearmNotLost == \A id \in Live : store[id].reminded = 1 => calls[id] >= 1

\* C3: a due event is marked notified when its processing ends, whether the
\* send succeeded, the channel was not messageable, or the send raised.
\* Fails on the send that raises.
C3_MarkedWhateverOutcome ==
  \A id \in Live : outcome[id] \in {"ok", "unreachable", "error"} => store[id].reminded = 1

\* C4: whenever a send starts, the scan time is at or after event_time minus
\* the offset stored for the event, for every stored offset including 0.
\* Fails for the stored offset 0, which reminder_loop replaces by 30.
C4_NeverEarly ==
  [][SendStarts =>
       LET id == rows'[idx'].id IN
       id \in DOMAIN store' =>
         now_utc' >= store'[id].event_time_utc - store'[id].remind_minutes]_vars

\* C5: in every reachable state the manager of every event is unset or is in
\* the participants read back from the store. Fails for a creator whose
\* display name holds a comma.
C5_ManagerIsParticipant ==
  \A id \in Live :
    \/ store[id].manager = NULL
    \/ store[id].manager = <<>>
    \/ InList(store[id].manager, Parts(store[id]))

\* C6: the participants read back from the store never hold a name twice.
\* Fails when "a,b" joins an event that holds "a".
C6_NoDuplicates ==
  \A id \in Live :
    LET parts == Parts(store[id]) IN
    \A i, j \in 1..Len(parts) : i # j => parts[i] # parts[j]

\* C7: for a name that joined and has not left since, a further join replies
\* AlreadyMember and changes nothing, and a leave replies ok, not NotMember.
\* Fails for a display name that holds a comma.
C7_JoinRecognised ==
  [][\A id \in EventIds, n \in Names :
       <<id, n>> \in joined =>
         /\ join_event(id, n) => (resp'.res = "already" /\ store' = store)
         /\ leave_event(id, n) => resp'.res \in {"ok", "ok_cleared"}]_vars

\* C8: the ids create_event returns are strictly increasing, hence pairwise
\* distinct and never reused, also after deletes.
C8_IdsIncrease ==
  \A i, j \in 1..Len(issued) : i < j => issued[i] < issued[j]

\* a second create answered after the first event was deleted
C8_Witness ==
  /\ resp = Reply("create", "ok", 0, <<>>)
  /\ Len(issued) = 2
  /\ issued[1] \notin Live

\* the title create_event takes from a payload
TitleOf(payload) == Strip(Split(payload, "|")[1])

\* C9: a create whose title is empty after trimming leaves the store
\* unchanged, and no stored event has an empty title. Fails: create_event
\* never looks at the title.
C9_EmptyTitleRejected ==
  [][/\ \A ch \in Channels \cup {VoiceChannel}, p \in Payloads, a \in OneName :
          (create_event(ch, p, a) /\ TitleOf(p) = <<>>) => store' = store
     /\ \A id \in DOMAIN store' : store'[id].title # <<>>]_vars

\* C10: right after a successful create by p the new event has manager p,
\* participants exactly [p], remind_minutes 30, reminded 0, and every other
\* event is as before. Fails for p = "a,b": its participants read back as
\* [a, b].
C10_CreateResult ==
  [][\A ch \in Channels, p \in OnePayload, a \in Names :
       (create_event(ch, p, a) /\ resp' = Reply("create", "ok", 0, <<>>) /\ seq' # seq) =>
         LET new == store'[seq'] IN
         /\ new.manager = a
         /\ Parts(new) = <<a>>
         /\ new.remind_minutes = DefaultRemind
         /\ new.reminded = 0
         /\ \A j \in DOMAIN store : j \in DOMAIN store' /\ store'[j] = store[j]]_vars

FailureReplies ==
  {"not_found", "already", "not_member", "not_participant", "no_participants",
   "out_of_range", "bad_time"}

\* C12: a command that replies with one of these failures leaves the whole
\* store as it was (every step of SpecCommands is a command, and resp' is its
\* reply).
C12_FailureKeepsStore ==
  [][resp'.res \in FailureReplies => (store' = store /\ seq' = seq)]_vars

\* a command has failed on a store that holds an event
C12_Witness ==
  /\ resp = Reply("set_reminder", "out_of_range", 0, <<>>)
  /\ Live # {}

C14_EventuallyNotified ==
  \A id \in EventIds :
    (/\ running
     /\ id \in Live
     /\ store[id].reminded = 0
     /\ now >= store[id].event_time_utc - store[id].remind_minutes)
    ~> (id \in Live /\ store[id].reminded = 1)

\* the fields of a row that only create_event writes
Identity(row) ==
  <<row.id, row.proposer, row.channel_id, row.title, row.location, row.event_time_utc>>

\* a step of one of the six commands that change the event with the given id
Changes(id) ==
  \/ resp'.op = "join" /\ \E a \in Names : join_event(id, a)
  \/ resp'.op = "leave" /\ \E a \in Names : leave_event(id, a)
  \/ resp'.op = "set_manager" /\ \E a \in Names : set_manager(id, a)
  \/ resp'.op = "random_manager" /\ random_manager(id)
  \/ resp'.op = "add_note" /\ \E n \in Notes : add_note(id, n)
  \/ resp'.op = "set_reminder" /\ \E m \in Minutes : set_reminder(id, m)

\* C15: across every step an event that stays in the table keeps id, proposer,
\* channel_id, title, location and event_time_utc; join_event, leave_event,
\* set_manager, random_manager, add_note and set_reminder called with an id
\* neither add nor remove rows nor touch a row with another id; a step of
\* reminder_loop neither adds nor removes rows and changes no column of any
\* row but reminded. (A step that leaves the table as it was meets all of
\* this, so the steps are looked at only when store changes.)
C15_FrameOfUpdates ==
  [][/\ \A id \in Live \cap DOMAIN store' : Identity(store'[id]) = Identity(store[id])
     /\ \A id \in EventIds :
          (store' # store /\ Changes(id)) =>
            /\ DOMAIN store' = DOMAIN store
            /\ \A j \in Live \ {id} : store'[j] = store[j]
     /\ (store' # store /\ (LoopStart \/ SendOk \/ SendError)) =>
          /\ DOMAIN store' = DOMAIN store
          /\ \A j \in Live : store'[j] = [store[j] EXCEPT !.reminded = store'[j].reminded]]_vars

\* add_note has just written the note of the first event while a second
\* event, whose reminder the loop has sent, still has the empty note
C15_Witness ==
  /\ resp = Reply("add_note", "ok", 0, <<>>)
  /\ Live = {FirstId, FirstId + 1}
  /\ store[FirstId].note = <<"N">>
  /\ store[FirstId + 1].note = <<>>
  /\ store[FirstId + 1].reminded = 1
  /\ outcome[FirstId + 1] = "ok"

\* C16: in every reachable state and for every id, running the UPDATE of
\* lines 151-152 twice leaves the table as running it once does; on a row that
\* is already marked, and on an id that has no row, it changes nothing (the
\* statement has no failing outcome).
C16_MarkIdempotent ==
  \A id \in EventIds :
    /\ MarkReminded(MarkReminded(store, id), id) = MarkReminded(store, id)
    /\ (id \in Live /\ store[id].reminded = 1) => MarkReminded(store, id) = store
    /\ id \notin Live => MarkReminded(store, id) = store

\* the loop has marked one event after a successful send while another event
\* is still armed
C16_Witness ==
  \E id, other \in Live :
    /\ outcome[id] = "ok" /\ store[id].reminded = 1
    /\ store[other].reminded = 0

\* C17: whenever reminder_loop starts a send (enters await chan.send for a
\* row), the event of that row is in the table at that moment. Fails: the
\* rows were fetched once at the start of the cycle, and a delete_event that
\* runs while the loop is suspended in an earlier send is not seen.
C17_SendsOnlyLiveEvents ==
  [][SendStarts => rows'[idx'].id \in DOMAIN store']_vars

\* C18: delete_event(id, caller, perms, confirm) removes the row of id, and
\* only that row, exactly when the row exists, the caller's display name is
\* its proposer or its manager or perms holds, and confirm is "confirm"; in
\* every other case the table is as before. show_event on an id that was
\* assigned and deleted replies not found.
C18_DeleteGated ==
  [][/\ \A id \in EventIds, a \in Callers, perms \in BOOLEAN, cf \in Confirms :
          (resp'.op = "delete" /\ delete_event(id, a, perms, cf)) =>
            IF /\ id \in Live
               /\ (a = store[id].proposer \/ a = store[id].manager \/ perms)
               /\ cf = "confirm"
            THEN /\ resp'.res = "ok"
                 /\ DOMAIN store' = Live \ {id}
                 /\ \A j \in DOMAIN store' : store'[j] = store[j]
            ELSE /\ resp'.res # "ok"
                 /\ store' = store
     /\ \A id \in EventIds :
          (resp'.op = "show" /\ show_event(id) /\ id <= seq /\ id \notin Live) =>
            resp'.res = "not_found"]_vars

\* show_event has just replied not found after the first event was deleted,
\* and the second event is still in the table
C18_Witness ==
  /\ resp = Reply("show", "not_found", 0, <<>>)
  /\ seq = FirstId + 1
  /\ Live = {FirstId + 1}

\* C19: when leave_event removes a member, its reply carries the notice that
\* the manager left and the slot was cleared exactly when that member was the
\* event's manager before the call. Fails: the notice is added whenever the
\* manager written back is None, also when the event had no manager already.
C19_NoticeIffManagerLeft ==
  [][\A id \in EventIds, n \in Names :
       (/\ resp'.op = "leave"
        /\ resp'.res \in {"ok", "ok_cleared"}
        /\ id \in Live
        /\ leave_event(id, n)) =>
         ((resp'.res = "ok_cleared") <=> (n = store[id].manager))]_vars

====
